---- MODULE Spec2Model ----
(***************************************************************************)
(* Model of src/server.js: the Famy Share relay.                           *)
(*                                                                         *)
(*   POST /upload   multer (memory storage) -> base64 data URI ->          *)
(*                  cloudinary.uploader.upload -> generateUniqueId ->      *)
(*                  mockDatabase[uniqueId] = {fileName, fileUrl} -> 200     *)
(*   GET /:uniqueId mockDatabase lookup -> headers -> https.get ->          *)
(*                  stream.pipe(res)                                        *)
(*                                                                         *)
(* Node runs each handler, and each continuation after an await or inside  *)
(* an event callback, to completion; one action below is one such run.     *)
(***************************************************************************)
EXTENDS Integers, Sequences, FiniteSets, TLC

(* ------------------------------ bounds -------------------------------- *)

\* number of requests (POST /upload and GET /:uniqueId together) the clients send
MaxRequests == 3
\* number of identifiers, besides 'PERMTEST', that generateUniqueId can draw
NumIds == 1

\* the n-th upload and the n-th download the server receives
UploadIds == 1..MaxRequests
DownloadIds == 1..MaxRequests

(* --------------------------- program texts ---------------------------- *)

MsgNotFound == "File not found or link has expired."
MsgRequestFailed == "Error retrieving file from storage (Request failed)."
MsgNoFile == "No file received."
MsgUploadFailed == "Server failed to process and save the file."
PermId == "PERMTEST"
PermFileName == "Test_File_From_Cloudinary.jpg"
PermUrl == "https://res.cloudinary.com/djv2fivzd/image/upload/v1765457264/famy_share_uploads/somtbvanr2vv0gzwktro.png"

\* the value of a JavaScript property that does not exist
Undefined == "undefined"
\* a header that was not set on the response
NoHeader == ""

(* ------------------------------ inputs -------------------------------- *)

\* req.file when multer found no 'sharedFiles' part
NoFile == [present |-> FALSE, originalname |-> "", mimetype |-> "", buffer |-> << >>]

\* req.file objects multer can build (multer drops parts with an empty filename)
Files ==
    { [present |-> TRUE, originalname |-> "a.txt", mimetype |-> "text/plain",
       buffer |-> <<97, 98, 99>>],
      [present |-> TRUE, originalname |-> "b.bin",
       mimetype |-> "application/octet-stream", buffer |-> <<255>>] }

\* the identifiers generateUniqueId can return: 8 characters of [A-Za-z0-9]
\* ('PERMTEST' is one of them)
GeneratedIds == {PermId} \cup { "Id" \o ToString(i) \o "xxxxx" : i \in 1..NumIds }

\* own properties every JavaScript object inherits from Object.prototype
InheritedKeys == {"constructor"}

\* path segments a client may request
RequestIds == GeneratedIds \cup InheritedKeys

(* --------------------------- pure functions --------------------------- *)

\* a base64 encoder that forgets the last, incomplete group of bytes
RECURSIVE Base64NoTail(_)
Base64NoTail(b) ==
    IF Len(b) < 3 THEN << >>
    ELSE
        << b[1] \div 4, (b[1] % 4) * 16 + (b[2] \div 16),
           (b[2] % 16) * 4 + (b[3] \div 64), b[3] % 64 >>
        \o Base64NoTail(SubSeq(b, 4, Len(b)))

\* Buffer.toString('base64'): sextets 0..63, and 64 for the padding '='
RECURSIVE Base64(_)
Base64(b) ==
    IF Len(b) = 0 THEN << >>
    ELSE IF Len(b) = 1 THEN
        << b[1] \div 4, (b[1] % 4) * 16, 64, 64 >>
    ELSE IF Len(b) = 2 THEN
        << b[1] \div 4, (b[1] % 4) * 16 + (b[2] \div 16), (b[2] % 16) * 4, 64 >>
    ELSE
        << b[1] \div 4, (b[1] % 4) * 16 + (b[2] \div 16),
           (b[2] % 16) * 4 + (b[3] \div 64), b[3] % 64 >>
        \o Base64(SubSeq(b, 4, Len(b)))

\* the bytes the blob store keeps for a base64 payload
RECURSIVE Base64Decode(_)
Base64Decode(s) ==
    IF Len(s) < 4 THEN << >>
    ELSE IF s[3] = 64 THEN
        << s[1] * 4 + (s[2] \div 16) >>
    ELSE IF s[4] = 64 THEN
        << s[1] * 4 + (s[2] \div 16), (s[2] % 16) * 16 + (s[3] \div 4) >>
    ELSE
        << s[1] * 4 + (s[2] \div 16), (s[2] % 16) * 16 + (s[3] \div 4),
           (s[3] % 4) * 64 + s[4] >>
        \o Base64Decode(SubSeq(s, 5, Len(s)))

\* `data:${req.file.mimetype};base64,${req.file.buffer.toString('base64')}`
DataURI(file) == [mimetype |-> file.mimetype, base64 |-> Base64(file.buffer)]

\* a handler that never rejects a request without a file
HasNoFileNever(file) == FALSE

\* !req.file
HasNoFile(file) == ~file.present

\* a record built from a property the store's answer does not have
ShareRecordNoUrl(fileName, fileUrl) == [fileName |-> fileName, fileUrl |-> Undefined]

\* { fileName: uploadedFileName, fileUrl: publicFileUrl }
ShareRecord(fileName, fileUrl) == [fileName |-> fileName, fileUrl |-> fileUrl]

\* a put that replaces the whole Registry by the new entry
RegistryPutReplacesAll(db, id, rec) == [k \in {id} |-> rec]

\* mockDatabase[uniqueId] = record
RegistryPut(db, id, rec) ==
    [k \in DOMAIN db \cup {id} |-> IF k = id THEN rec ELSE db[k]]

\* mockDatabase[uniqueId]: an own entry, an inherited property, or undefined
Lookup(db, id) ==
    IF id \in DOMAIN db THEN
        [kind |-> "object", fileName |-> db[id].fileName, fileUrl |-> db[id].fileUrl]
    ELSE IF id \in InheritedKeys THEN
        [kind |-> "function", fileName |-> Undefined, fileUrl |-> Undefined]
    ELSE
        [kind |-> "undefined", fileName |-> Undefined, fileUrl |-> Undefined]

\* a check that tests only !fileData
NotFoundOnlyUndefined(fileData) == fileData.kind = "undefined"

\* !fileData || !fileData.fileUrl
NotFound(fileData) ==
    \/ fileData.kind = "undefined"
    \/ fileData.fileUrl \in {Undefined, ""}

\* a Registry that starts with a second built-in entry
InitialDatabaseTwoEntries ==
    [k \in GeneratedIds |-> [fileName |-> PermFileName, fileUrl |-> PermUrl]]

\* const mockDatabase = {}; mockDatabase['PERMTEST'] = {...}
InitialDatabase ==
    [k \in {PermId} |-> ShareRecord(PermFileName, PermUrl)]

(* ------------------------------- state -------------------------------- *)

VARIABLES
    mockDatabase,   \* the Registry: identifier -> ShareRecord
    blobs,          \* the blob store: URL -> stored bytes
    uploads,        \* the POST /upload requests
    downloads,      \* the GET /:uniqueId requests
    issued,         \* number of uploads answered 200 so far
    crashed         \* the process died of an uncaught exception

vars == << mockDatabase, blobs, uploads, downloads, issued, crashed >>

NoJson == [status |-> "", message |-> "", uniqueId |-> "", fileName |-> "", fileUrl |-> ""]

IdleUpload ==
    [pc |-> "idle", file |-> NoFile, dataURI |-> [mimetype |-> "", base64 |-> << >>],
     storeCalls |-> 0, status |-> 0, json |-> NoJson, seq |-> 0]

IdleDownload ==
    [pc |-> "idle", id |-> "", wasKey |-> FALSE, beganAt |-> 0, url |-> "",
     disposition |-> NoHeader, contentType |-> NoHeader,
     statusCode |-> 200, headersSent |-> FALSE, body |-> << >>, text |-> "",
     finished |-> FALSE, clientGone |-> FALSE, destroyed |-> FALSE,
     piped |-> FALSE, upstream |-> "none", pos |-> 0,
     sendAfterHeaders |-> FALSE, failedToStart |-> FALSE, failedMidStream |-> FALSE]

\* the bytes the blob store serves at a URL
Content(url) == IF url \in DOMAIN blobs THEN blobs[url] ELSE << >>

\* secure_url of the next blob the store creates
NewUrl == "https://res.cloudinary.com/famy_share_uploads/blob" \o ToString(Cardinality(DOMAIN blobs))

\* number of requests received so far
Received ==
    Cardinality({u \in UploadIds : uploads[u].pc # "idle"})
    + Cardinality({d \in DownloadIds : downloads[d].pc # "idle"})

Init ==
    /\ mockDatabase = InitialDatabase
    /\ blobs = [u \in {PermUrl} |-> <<137, 80>>]
    /\ uploads = [u \in UploadIds |-> IdleUpload]
    /\ downloads = [d \in DownloadIds |-> IdleDownload]
    /\ issued = 0
    /\ crashed = FALSE

(* --------------------------- POST /upload ----------------------------- *)

\* the handler up to the await: the 400 answer, or the call of the blob store
UploadBegin(u, file) ==
    /\ ~crashed
    /\ uploads[u].pc = "idle"
    /\ IF u = 1 THEN TRUE ELSE uploads[u - 1].pc # "idle"
    /\ Received < MaxRequests
    /\ IF HasNoFile(file) THEN
           uploads' = [uploads EXCEPT ![u] =
               [@ EXCEPT !.pc = "done", !.file = file, !.status = 400,
                         !.json = [NoJson EXCEPT !.status = "error",
                                                 !.message = MsgNoFile]]]
       ELSE
           uploads' = [uploads EXCEPT ![u] =
               [@ EXCEPT !.pc = "awaiting", !.file = file,
                         !.dataURI = DataURI(file),
                         !.storeCalls = @ + 1]]
    /\ UNCHANGED << mockDatabase, blobs, downloads, issued, crashed >>

\* the continuation after the await: the store kept the blob under a new URL;
\* mint the id, record it under the given file name, answer 200
UploadFinish(u, uploadedFileName) ==
    /\ ~crashed
    /\ uploads[u].pc = "awaiting"
    /\ LET publicFileUrl == NewUrl
       IN  /\ blobs' = [k \in DOMAIN blobs \cup {publicFileUrl} |->
                           IF k = publicFileUrl
                           THEN Base64Decode(uploads[u].dataURI.base64)
                           ELSE blobs[k]]
           /\ \E uniqueId \in GeneratedIds :
                /\ mockDatabase' = RegistryPut(mockDatabase, uniqueId,
                                       ShareRecord(uploadedFileName, publicFileUrl))
                /\ uploads' = [uploads EXCEPT ![u] =
                       [@ EXCEPT !.pc = "done", !.status = 200, !.seq = issued + 1,
                                 !.json = [status |-> "success", message |-> "",
                                           uniqueId |-> uniqueId,
                                           fileName |-> uploadedFileName,
                                           fileUrl |-> publicFileUrl]]]
    /\ issued' = issued + 1
    /\ UNCHANGED << downloads, crashed >>

\* a handler that keeps the file name in a variable shared by all requests:
\* the name of the upload received last
UploadResolvedSharedName(u) ==
    LET last == CHOOSE v \in UploadIds :
                    /\ uploads[v].pc # "idle"
                    /\ \A w \in UploadIds : uploads[w].pc # "idle" => w <= v
    IN  UploadFinish(u, uploads[last].file.originalname)

\* the await resolves: const uploadedFileName = req.file.originalname
UploadResolved(u) == UploadFinish(u, uploads[u].file.originalname)

\* the await rejects: the catch block answers 500
UploadRejected(u) ==
    /\ ~crashed
    /\ uploads[u].pc = "awaiting"
    /\ uploads' = [uploads EXCEPT ![u] =
           [@ EXCEPT !.pc = "done", !.status = 500,
                     !.json = [NoJson EXCEPT !.status = "error",
                                             !.message = MsgUploadFailed]]]
    /\ UNCHANGED << mockDatabase, blobs, downloads, issued, crashed >>

(* -------------------------- GET /:uniqueId --------------------------- *)

\* `attachment; filename="${actualFileName}"`
Disposition(fileName) == "attachment; filename=\"" \o fileName \o "\""

\* res.status(code).send(text) on a response whose headers are not yet sent
Send(r, code, message) ==
    [r EXCEPT !.statusCode = code, !.headersSent = TRUE, !.text = message,
              !.finished = TRUE]

\* the handler: lookup, the 404 answer, or the download headers and https.get
DownloadBegin(d, uniqueId) ==
    /\ ~crashed
    /\ downloads[d].pc = "idle"
    /\ IF d = 1 THEN TRUE ELSE downloads[d - 1].pc # "idle"
    /\ Received < MaxRequests
    /\ LET fileData == Lookup(mockDatabase, uniqueId)
           req == [downloads[d] EXCEPT !.id = uniqueId,
                                       !.wasKey = (uniqueId \in DOMAIN mockDatabase),
                                       !.beganAt = issued]
       IN  IF NotFound(fileData) THEN
               downloads' = [downloads EXCEPT ![d] =
                   [Send(req, 404, MsgNotFound) EXCEPT !.pc = "done"]]
           ELSE
               downloads' = [downloads EXCEPT ![d] =
                   [req EXCEPT !.pc = "connecting",
                               !.url = fileData.fileUrl,
                               !.disposition = Disposition(fileData.fileName),
                               !.contentType = "application/octet-stream",
                               !.upstream = "open"]]
    /\ UNCHANGED << mockDatabase, blobs, uploads, issued, crashed >>

\* the https.get callback: the upstream answered; stream.pipe(res)
UpstreamResponse(d) ==
    /\ ~crashed
    /\ downloads[d].pc = "connecting"
    /\ downloads' = [downloads EXCEPT ![d] = [@ EXCEPT !.pc = "streaming", !.piped = TRUE]]
    /\ UNCHANGED << mockDatabase, blobs, uploads, issued, crashed >>

\* pipe: one more byte of the upstream body is written to the client
CopyChunk(r, content) ==
    [r EXCEPT !.body = Append(@, content[r.pos + 1]), !.pos = @ + 1,
              !.headersSent = TRUE]

PipeData(d) ==
    /\ ~crashed
    /\ downloads[d].pc = "streaming"
    /\ downloads[d].piped
    /\ downloads[d].pos < Len(Content(downloads[d].url))
    /\ downloads' = [downloads EXCEPT ![d] = CopyChunk(@, Content(@.url))]
    /\ UNCHANGED << mockDatabase, blobs, uploads, issued, crashed >>

\* pipe: the upstream body ended; res.end(), the upstream socket is released
PipeEnd(d) ==
    /\ ~crashed
    /\ downloads[d].pc = "streaming"
    /\ downloads[d].piped
    /\ downloads[d].pos = Len(Content(downloads[d].url))
    /\ downloads' = [downloads EXCEPT ![d] =
           [@ EXCEPT !.pc = "done", !.headersSent = TRUE, !.finished = TRUE,
                     !.piped = FALSE, !.upstream = "closed"]]
    /\ UNCHANGED << mockDatabase, blobs, uploads, issued, crashed >>

\* stream.on('error'): the upstream response broke off; res.destroy()
StreamError(d) ==
    /\ ~crashed
    /\ downloads[d].pc = "streaming"
    /\ downloads' = [downloads EXCEPT ![d] =
           [@ EXCEPT !.pc = "done", !.destroyed = TRUE, !.piped = FALSE,
                     !.upstream = "closed",
                     !.failedMidStream = downloads[d].headersSent]]
    /\ UNCHANGED << mockDatabase, blobs, uploads, issued, crashed >>

\* the body of the request's 'error' listener:
\* res.status(500).send('Error retrieving file from storage (Request failed).')
\* send() sets headers, which throws once the headers are sent; on a destroyed
\* response nothing reaches the client
RequestErrorHandler(r) ==
    IF r.headersSent THEN
        [r EXCEPT !.statusCode = 500, !.sendAfterHeaders = TRUE]
    ELSE IF r.destroyed THEN
        [r EXCEPT !.statusCode = 500]
    ELSE
        Send(r, 500, MsgRequestFailed)

\* the process exits: the operating system closes every socket it held
ProcessExit(rs) ==
    [k \in DOMAIN rs |->
        IF rs[k].upstream = "open" THEN [rs[k] EXCEPT !.upstream = "closed", !.piped = FALSE]
        ELSE rs[k]]

\* https.get(...).on('error'): the upstream socket failed, before or after the
\* upstream answered
RequestError(d) ==
    /\ ~crashed
    /\ downloads[d].pc \in {"connecting", "streaming"}
    /\ LET r == RequestErrorHandler(
                    [downloads[d] EXCEPT !.pc = "done", !.piped = FALSE,
                                         !.upstream = "closed",
                                         !.failedToStart = (downloads[d].pc = "connecting"),
                                         !.failedMidStream = downloads[d].headersSent])
       IN  IF r.sendAfterHeaders THEN
               /\ crashed' = TRUE
               /\ downloads' = ProcessExit([downloads EXCEPT ![d] = r])
           ELSE
               /\ crashed' = crashed
               /\ downloads' = [downloads EXCEPT ![d] = r]
    /\ UNCHANGED << mockDatabase, blobs, uploads, issued >>

\* what pipe does when the destination emits 'close': unpipe, and nothing else
PipeOnClose(r) == [r EXCEPT !.piped = FALSE]

\* the client disconnects while the download is being streamed
ClientAbort(d) ==
    /\ ~crashed
    /\ downloads[d].pc = "streaming"
    /\ ~downloads[d].clientGone
    /\ downloads' = [downloads EXCEPT ![d] =
           PipeOnClose([@ EXCEPT !.clientGone = TRUE, !.destroyed = TRUE])]
    /\ UNCHANGED << mockDatabase, blobs, uploads, issued, crashed >>

(* --------------------------- specification ---------------------------- *)

Next ==
    \/ \E u \in UploadIds, file \in Files \cup {NoFile} : UploadBegin(u, file)
    \/ \E u \in UploadIds : UploadResolved(u)
    \/ \E u \in UploadIds : UploadRejected(u)
    \/ \E d \in DownloadIds, uniqueId \in RequestIds : DownloadBegin(d, uniqueId)
    \/ \E d \in DownloadIds : UpstreamResponse(d)
    \/ \E d \in DownloadIds : PipeData(d)
    \/ \E d \in DownloadIds : PipeEnd(d)
    \/ \E d \in DownloadIds : StreamError(d)
    \/ \E d \in DownloadIds : RequestError(d)
    \/ \E d \in DownloadIds : ClientAbort(d)

Spec == Init /\ [][Next]_vars

\* the event loop runs every callback that is ready: an answer of the upstream
\* is delivered, piped data is copied; failures and clients are not obliged to act
Fairness ==
    \A d \in DownloadIds :
        /\ WF_vars(UpstreamResponse(d))
        /\ WF_vars(PipeData(d))
        /\ WF_vars(PipeEnd(d))

FairSpec == Spec /\ Fairness

(* ------------------------------ helpers ------------------------------- *)

\* upload u was answered 200
Done200(u) == uploads[u].pc = "done" /\ uploads[u].status = 200

\* download d was answered 200 and its body was ended by the relay
Complete200(d) ==
    /\ downloads[d].pc = "done"
    /\ downloads[d].finished
    /\ downloads[d].statusCode = 200

\* upload u was answered 200 with the identifier of download d before d's lookup
IssuedBefore(u, d) ==
    /\ Done200(u)
    /\ uploads[u].json.uniqueId = downloads[d].id
    /\ uploads[u].seq <= downloads[d].beganAt

\* no other upload was given u's identifier between u's answer and d's lookup
NotOverwrittenBefore(u, d) ==
    \A v \in UploadIds :
        ~ ( /\ v # u
            /\ IssuedBefore(v, d)
            /\ uploads[v].seq > uploads[u].seq )

IsPrefix(s, t) == Len(s) <= Len(t) /\ s = SubSeq(t, 1, Len(s))

(* ------------------------------- claims ------------------------------- *)

\* C1: a GET of an identifier that is not a key of the Registry at the time of
\* the request is answered 404 "File not found or link has expired.", without a
\* Content-Disposition header and without an upstream fetch.
C1_UnknownIdIs404 ==
    \A d \in DownloadIds :
        (downloads[d].pc # "idle" /\ ~downloads[d].wasKey) =>
            /\ downloads[d].pc = "done"
            /\ downloads[d].statusCode = 404
            /\ downloads[d].headersSent
            /\ downloads[d].finished
            /\ downloads[d].text = MsgNotFound
            /\ downloads[d].body = << >>
            /\ downloads[d].disposition = NoHeader
            /\ downloads[d].upstream = "none"

\* C1 witness: an inherited property name and a never issued identifier were
\* both requested and answered 404
C1_Witness ==
    /\ \E d \in DownloadIds :
          /\ downloads[d].id \in InheritedKeys
          /\ downloads[d].statusCode = 404
    /\ \E d \in DownloadIds :
          /\ downloads[d].pc = "done"
          /\ downloads[d].id \in GeneratedIds
          /\ ~downloads[d].wasKey
          /\ downloads[d].statusCode = 404

\* C2 as stated: every completed GET of an identifier that an earlier upload
\* was answered with returns exactly that upload's payload, whatever other
\* uploads came in between.
C2_RoundTripAnyInterleaving ==
    \A u \in UploadIds, d \in DownloadIds :
        (IssuedBefore(u, d) /\ Complete200(d)) =>
            downloads[d].body = uploads[u].file.buffer

\* C2 amended: the same, provided no other upload was given the same
\* identifier between the upload's answer and the GET.
C2_RoundTrip ==
    \A u \in UploadIds, d \in DownloadIds :
        (IssuedBefore(u, d) /\ NotOverwrittenBefore(u, d) /\ Complete200(d)) =>
            downloads[d].body = uploads[u].file.buffer

\* C2 witness: a completed download of an uploaded file, with another
\* successful upload between the upload and the download
C2_Witness ==
    \E u \in UploadIds, v \in UploadIds, d \in DownloadIds :
        /\ IssuedBefore(u, d) /\ NotOverwrittenBefore(u, d) /\ Complete200(d)
        /\ Done200(v) /\ uploads[v].seq > uploads[u].seq
        /\ uploads[v].seq <= downloads[d].beganAt
        /\ Len(downloads[d].body) > 0

\* C3: a POST /upload without a file is answered 400 {status:"error",
\* message:"No file received."}, calls the blob store not at all and leaves
\* the Registry as it was.
C3_NoFileIs400 ==
    [][ \A u \in UploadIds :
          (uploads[u].pc = "idle" /\ uploads'[u].pc # "idle"
              /\ ~uploads'[u].file.present) =>
            /\ uploads'[u].pc = "done"
            /\ uploads'[u].status = 400
            /\ uploads'[u].json = [status |-> "error", message |-> MsgNoFile,
                                   uniqueId |-> "", fileName |-> "", fileUrl |-> ""]
            /\ uploads'[u].storeCalls = 0
            /\ blobs' = blobs
            /\ mockDatabase' = mockDatabase ]_vars

\* C3 witness: an upload without a file was answered 400 after another upload
\* had put a record into the Registry
C3_Witness ==
    \E u \in UploadIds, v \in UploadIds :
        /\ uploads[u].pc = "done" /\ ~uploads[u].file.present
        /\ uploads[u].status = 400
        /\ Done200(v) /\ v < u

\* C4: an upload that completes either leaves the Registry unchanged and is
\* answered 400 or 500, or puts exactly one record with a non-empty fileName
\* and fileUrl into the Registry and is answered 200 with that id, fileName and
\* fileUrl; the Registry changes in no other step; a failure of the blob store
\* is answered 500 "Server failed to process and save the file." and the store
\* is called at most once per request.
C4_NoPartialSuccess ==
    [][ /\ \A u \in UploadIds :
            (uploads[u].pc # "done" /\ uploads'[u].pc = "done") =>
              \/ /\ mockDatabase' = mockDatabase
                 /\ uploads'[u].status \in {400, 500}
                 /\ uploads'[u].json.status = "error"
                 /\ uploads'[u].status = 500 =>
                        uploads'[u].json.message = MsgUploadFailed
              \/ /\ uploads'[u].status = 200
                 /\ uploads'[u].json.status = "success"
                 /\ LET id == uploads'[u].json.uniqueId
                        rec == [fileName |-> uploads'[u].json.fileName,
                                fileUrl |-> uploads'[u].json.fileUrl]
                    IN  /\ rec.fileName \notin {"", Undefined}
                        /\ rec.fileUrl \notin {"", Undefined}
                        /\ DOMAIN mockDatabase' = DOMAIN mockDatabase \cup {id}
                        /\ mockDatabase'[id] = rec
                        /\ \A k \in DOMAIN mockDatabase : mockDatabase[k] # rec
                        /\ \A k \in DOMAIN mockDatabase \ {id} :
                               mockDatabase'[k] = mockDatabase[k]
        /\ mockDatabase' # mockDatabase =>
              \E u \in UploadIds : uploads[u].pc # "done" /\ uploads'[u].status = 200
        /\ \A u \in UploadIds : uploads'[u].storeCalls <= 1 ]_vars

\* C4 witness: one upload failed at the blob store and was answered 500,
\* another succeeded
C4_Witness ==
    \E u \in UploadIds, v \in UploadIds :
        /\ uploads[u].pc = "done" /\ uploads[u].status = 500
        /\ uploads[u].storeCalls = 1
        /\ Done200(v)
        /\ mockDatabase[uploads[v].json.uniqueId].fileUrl = uploads[v].json.fileUrl

\* C5 as stated: once the Registry maps an id to a record, it maps that id to
\* the same record in every later state.
C5_RecordNeverChanges ==
    [][ \A i \in DOMAIN mockDatabase :
          i \in DOMAIN mockDatabase' /\ mockDatabase'[i] = mockDatabase[i] ]_vars

\* C5 amended: a record is never deleted, and it changes only when a later
\* successful upload draws the same identifier, which replaces it by that
\* upload's record.
C5_RecordChangesOnlyOnCollision ==
    [][ \A i \in DOMAIN mockDatabase :
          /\ i \in DOMAIN mockDatabase'
          /\ mockDatabase'[i] # mockDatabase[i] =>
                \E u \in UploadIds :
                    /\ uploads[u].pc = "awaiting"
                    /\ uploads'[u].status = 200
                    /\ uploads'[u].json.uniqueId = i
                    /\ mockDatabase'[i] = [fileName |-> uploads[u].file.originalname,
                                           fileUrl |-> uploads'[u].json.fileUrl] ]_vars

\* C5 witness: two successful uploads drew the same identifier, and another
\* record is still in the Registry
C5_Witness ==
    \E u \in UploadIds, v \in UploadIds :
        /\ Done200(u) /\ Done200(v)
        /\ uploads[u].seq < uploads[v].seq
        /\ uploads[u].json.uniqueId = uploads[v].json.uniqueId
        /\ mockDatabase[uploads[v].json.uniqueId].fileUrl = uploads[v].json.fileUrl
        /\ Cardinality(DOMAIN mockDatabase) > 1

\* every started fetch of a download goes to the URL of an upload that was
\* given the requested identifier (or to the built-in PERMTEST entry), announces
\* that upload's file name, and delivers only bytes of that blob
DownloadsOwn ==
    \A d \in DownloadIds :
        downloads[d].upstream # "none" =>
            /\ \/ \E u \in UploadIds :
                     /\ IssuedBefore(u, d)
                     /\ downloads[d].url = uploads[u].json.fileUrl
                     /\ downloads[d].disposition = Disposition(uploads[u].file.originalname)
                     /\ Content(downloads[d].url) = uploads[u].file.buffer
               \/ /\ downloads[d].id = PermId
                  /\ downloads[d].url = PermUrl
                  /\ downloads[d].disposition = Disposition(PermFileName)
            /\ IsPrefix(downloads[d].body, Content(downloads[d].url))
            /\ \A v \in UploadIds :
                  (Done200(v) /\ uploads[v].json.uniqueId # downloads[d].id) =>
                      downloads[d].url # uploads[v].json.fileUrl

\* C6: whatever the order in which the blob-store calls of uploads return, a
\* successful upload maps its identifier to its own fileName and fileUrl, whose
\* blob holds its own payload, and touches the entry of no other identifier;
\* and a download fetches only the URL of an upload of the requested identifier.
C6_RegistryIsolation ==
    [][ /\ \A u \in UploadIds :
            (uploads[u].pc = "awaiting" /\ uploads'[u].status = 200) =>
              LET id == uploads'[u].json.uniqueId
                  url == uploads'[u].json.fileUrl
              IN  /\ id \in DOMAIN mockDatabase'
                  /\ mockDatabase'[id] = [fileName |-> uploads[u].file.originalname,
                                          fileUrl |-> url]
                  /\ url \notin DOMAIN blobs
                  /\ blobs'[url] = uploads[u].file.buffer
                  /\ \A k \in DOMAIN blobs : blobs'[k] = blobs[k]
                  /\ \A j \in DOMAIN mockDatabase \ {id} :
                         j \in DOMAIN mockDatabase' /\ mockDatabase'[j] = mockDatabase[j]
        /\ DownloadsOwn' ]_vars

\* C6 witness: two uploads whose blob-store calls overlapped (the one received
\* first was answered last) got different identifiers, and a download of the
\* first one's identifier completed
C6_Witness ==
    \E d \in DownloadIds :
        /\ Done200(1) /\ Done200(2)
        /\ uploads[1].seq = 2 /\ uploads[2].seq = 1
        /\ uploads[1].json.uniqueId # uploads[2].json.uniqueId
        /\ uploads[1].file # uploads[2].file
        /\ Complete200(d)
        /\ downloads[d].id = uploads[1].json.uniqueId
        /\ downloads[d].body = uploads[1].file.buffer

\* C7: the process never exits on a failure of a request, and each of the
\* listed failures is answered: no file (400), unknown identifier (404),
\* blob-store failure (500), upstream fetch failing to start (500), upstream
\* fetch failing after streaming began (the response already under way).
C7_AlwaysAnswersNeverExits ==
    /\ ~crashed
    /\ \A u \in UploadIds :
          uploads[u].pc = "done" =>
              /\ ~uploads[u].file.present => uploads[u].status = 400
              /\ uploads[u].file.present => uploads[u].status \in {200, 500}
    /\ \A d \in DownloadIds :
          /\ (downloads[d].pc # "idle" /\ ~downloads[d].wasKey) =>
                 (downloads[d].statusCode = 404 /\ downloads[d].finished)
          /\ downloads[d].failedToStart =>
                 (downloads[d].statusCode = 500 /\ downloads[d].finished)
          /\ downloads[d].failedMidStream => downloads[d].headersSent

\* C8: the 500 answer to a failed upstream fetch is attempted only while no
\* byte of the response has been written to the client.
C8_ErrorAnswerOnlyBeforeBytes ==
    \A d \in DownloadIds : ~downloads[d].sendAfterHeaders

\* C9: once the client of a streamed download has disconnected, the upstream
\* fetch connection is eventually closed.
C9_ClientAbortReleasesUpstream ==
    \A d \in DownloadIds :
        (downloads[d].clientGone /\ downloads[d].upstream = "open")
            ~> (downloads[d].upstream = "closed")

\* C10 as stated: every identifier in the Registry was returned by an earlier
\* 200 answer of POST /upload (so the Registry is empty before the first one).
C10_OnlyUploadsPopulate ==
    \A i \in DOMAIN mockDatabase :
        \E u \in UploadIds : Done200(u) /\ uploads[u].json.uniqueId = i

\* C10 amended: the Registry starts with the built-in 'PERMTEST' entry alone;
\* every other identifier in it was returned by an earlier 200 answer of POST
\* /upload, and a GET of an identifier other than 'PERMTEST' that no upload was
\* answered with is answered 404.
C10_OnlyUploadsAndPermTest ==
    /\ PermId \in DOMAIN mockDatabase
    /\ issued = 0 =>
          mockDatabase = [k \in {PermId} |->
                             [fileName |-> PermFileName, fileUrl |-> PermUrl]]
    /\ \A i \in DOMAIN mockDatabase \ {PermId} :
          \E u \in UploadIds : Done200(u) /\ uploads[u].json.uniqueId = i
    /\ \A d \in DownloadIds :
          ( /\ downloads[d].pc # "idle"
            /\ downloads[d].id # PermId
            /\ \A u \in UploadIds : ~IssuedBefore(u, d) ) =>
              downloads[d].statusCode = 404

\* C10 witness: an upload added an identifier, after a GET of that identifier
\* had been answered 404, and a GET of 'PERMTEST' was served without any upload
C10_Witness ==
    /\ \E u \in UploadIds, d \in DownloadIds :
          /\ Done200(u)
          /\ uploads[u].json.uniqueId # PermId
          /\ uploads[u].json.uniqueId \in DOMAIN mockDatabase
          /\ downloads[d].id = uploads[u].json.uniqueId
          /\ downloads[d].statusCode = 404
    /\ \E d \in DownloadIds :
          /\ downloads[d].id = PermId
          /\ downloads[d].beganAt = 0
          /\ downloads[d].upstream # "none"

====
